---- MODULE Spec2Model ----
(***************************************************************************)
(* Model of sendme-tauri's provider: src-tauri/src/upload.rs (provide,     *)
(* import and the accept-loop task) and its caller src-tauri/src/main.rs   *)
(* (the upload command).  Every call of upload is one session; sessions    *)
(* run as concurrent tasks of one process and share its file system.       *)
(***************************************************************************)
EXTENDS Naturals, Sequences, FiniteSets, TLC

\* ------------------------------------------------------------------ bounds
\* Number of upload commands (calls of provide) issued to the process.
NumSessions == 2
\* Number of values the 16 random bytes of the directory suffix can take.
NumSuffixes == 2
\* Number of regular files the traversal of the shared path enumerates.
NumFiles == 3
\* num_cpus::get(): the width of buffer_unordered.
NumCpus == 2
\* Number of connections one accept loop accepts.
MaxConns == 2

\* The longest path, in components, the longest entry name, in characters,
\* and the largest number of entries below an imported directory.
MaxComps == 3
MaxNameLen == 4
MaxTreeEntries == 4

Sessions == 1..NumSessions
Suffixes == 1..NumSuffixes
Files == 1..NumFiles

\* ------------------------------------------------------------------ values
NoSuffix == 0
NoCollection == <<"none">>
NoTag == [held |-> FALSE, hash |-> 0]
NoTicket == [addr |-> 0, hash |-> 0, format |-> "none"]

\* The position in the traversal stands for the file's relative name and
\* path: data_sources holds the files in the order WalkDir enumerated them.
data_sources == [i \in Files |-> i]

\* What the store reports for a file: Hash of its bytes and its size.
FileHash(f) == 10 + f
FileSize(f) == 512 * f

\* BlobFormat, as used by import_file and by BlobTicket::new.
BlobFormatRaw == "Raw"
BlobFormatHashSeq == "HashSeq"

VARIABLES
    alive,      \* the process is running (std::process::exit not called)
    dirs,       \* the suffixes whose .sendme-provide-<suffix> directory exists
    pc,         \* the position of each session in provide / its accept task
    suffix,     \* the suffix each session drew
    inflight,   \* import: the ingestions pushed to buffer_unordered, not done
    started,    \* import: how many of data_sources were taken from the stream
    results,    \* import: the Vec buffer_unordered collected, completion order
    fileTags,   \* import: files whose TempTag the import holds
    stored,     \* the Collection persisted in the session's store
    tempTag,    \* the collection's TempTag held by provide / the accept task
    derp,       \* endpoint.my_derp().is_some()
    ticket,     \* the BlobTicket made by provide
    result,     \* what provide returned to upload: "none", "ok" or "err"
    handlers,   \* the connection handlers spawned by the accept loop
    acceptRes,  \* what the last endpoint.accept() of the loop yielded
    pin,        \* the argument of a call of one of the functions on paths
    pout        \* what that call has returned so far

vars == <<alive, dirs, pc, suffix, inflight, started, results, fileTags,
          stored, tempTag, derp, ticket, result, handlers, acceptRes,
          pin, pout>>

\* The state of the session machinery, and the state of a function call.
sessionVars == <<alive, dirs, pc, suffix, inflight, started, results, fileTags,
                 stored, tempTag, derp, ticket, result, handlers, acceptRes>>
pureVars == <<pin, pout>>
NoCall == [kind |-> "none"]

importVars == <<inflight, started, results, fileTags>>

PcValues ==
    {"start", "check", "collision", "create", "load", "import", "ingest",
     "store", "stored", "bind", "poll", "sleep", "addr", "ready", "serving",
     "draining", "rmdir", "closed", "cancelled", "failed", "panicked"}

TypeOK ==
    /\ alive \in BOOLEAN
    /\ dirs \subseteq Suffixes
    /\ pc \in [Sessions -> PcValues]
    /\ suffix \in [Sessions -> Suffixes \cup {NoSuffix}]
    /\ inflight \in [Sessions -> SUBSET Files]
    /\ started \in [Sessions -> 0..NumFiles]
    /\ \A s \in Sessions :
          /\ Len(results[s]) <= NumFiles
          /\ \A i \in 1..Len(results[s]) :
                results[s][i].file \in Files /\ results[s][i].ok \in BOOLEAN
          /\ Len(handlers[s]) <= MaxConns
          /\ \A i \in 1..Len(handlers[s]) :
                handlers[s][i] \in {"running", "done", "failed"}
    /\ fileTags \in [Sessions -> SUBSET Files]
    /\ \A s \in Sessions : tempTag[s].held \in BOOLEAN
    /\ derp \in [Sessions -> BOOLEAN]
    /\ \A s \in Sessions : ticket[s].format \in {"none", BlobFormatRaw, BlobFormatHashSeq}
    /\ result \in [Sessions -> {"none", "ok", "err"}]
    /\ acceptRes \in [Sessions -> {"pending", "some", "none"}]

SessionInit ==
    /\ alive = TRUE
    /\ dirs = {}
    /\ pc = [s \in Sessions |-> "start"]
    /\ suffix = [s \in Sessions |-> NoSuffix]
    /\ inflight = [s \in Sessions |-> {}]
    /\ started = [s \in Sessions |-> 0]
    /\ results = [s \in Sessions |-> <<>>]
    /\ fileTags = [s \in Sessions |-> {}]
    /\ stored = [s \in Sessions |-> NoCollection]
    /\ tempTag = [s \in Sessions |-> NoTag]
    /\ derp = [s \in Sessions |-> FALSE]
    /\ ticket = [s \in Sessions |-> NoTicket]
    /\ result = [s \in Sessions |-> "none"]
    /\ handlers = [s \in Sessions |-> <<>>]
    /\ acceptRes = [s \in Sessions |-> "pending"]

Init ==
    /\ SessionInit
    /\ pin = NoCall
    /\ pout = NoCall

\* ------------------------------------------------------------- pure helpers
\* Variant: the first element is left out of the sum.
RECURSIVE SumSizesTail(_)
SumSizesTail(res) ==
    IF Len(res) <= 1 THEN 0 ELSE res[2].size + SumSizesTail(Tail(res))

\* names_and_tags.iter().map(|(_, _, size)| *size).sum::<u64>()
RECURSIVE SumSizes(_)
SumSizes(res) ==
    IF res = <<>> THEN 0 ELSE res[1].size + SumSizes(Tail(res))

\* Collection's root identity: the hash of the serialized (name, hash) pairs.
RECURSIVE CollectionHash(_)
CollectionHash(coll) ==
    IF coll = <<>> THEN 7
    ELSE (CollectionHash(SubSeq(coll, 1, Len(coll) - 1)) * 31
            + coll[Len(coll)][1] * 17 + coll[Len(coll)][2]) % 1000003

\* provide returns Err(e): the `?` of a failing step.  The locals of provide
\* are dropped, the working directory is left as it is.
ReturnErr(s) ==
    /\ pc' = [pc EXCEPT ![s] = "failed"]
    /\ result' = [result EXCEPT ![s] = "err"]
    /\ tempTag' = [tempTag EXCEPT ![s] = NoTag]
    /\ fileTags' = [fileTags EXCEPT ![s] = {}]

\* --------------------------------------------------------------- provide
\* get_or_create_secret()?, the draw of the 16 random bytes and
\* path.parent().unwrap(): a shared path without a parent ("/" or "") makes
\* the unwrap panic; the command's task dies, provide returns neither Ok nor
\* Err, and the process goes on.
Begin(s) ==
    /\ alive /\ pc[s] = "start" /\ UNCHANGED pureVars
    /\ \/ /\ \E x \in Suffixes : suffix' = [suffix EXCEPT ![s] = x]
          /\ pc' = [pc EXCEPT ![s] = "check"]
          /\ UNCHANGED <<result, tempTag, fileTags>>
       \/ /\ ReturnErr(s)
          /\ UNCHANGED suffix
       \/ /\ pc' = [pc EXCEPT ![s] = "panicked"]
          /\ UNCHANGED <<suffix, result, tempTag, fileTags>>
    /\ UNCHANGED <<alive, dirs, inflight, started, results, stored, derp,
                   ticket, handlers, acceptRes>>

\* if iroh_data_dir.exists() { println!(..); std::process::exit(1); }
CheckExists(s) ==
    /\ alive /\ pc[s] = "check" /\ UNCHANGED pureVars
    /\ IF suffix[s] \in dirs
       THEN /\ alive' = FALSE
            /\ pc' = [pc EXCEPT ![s] = "collision"]
       ELSE /\ alive' = alive
            /\ pc' = [pc EXCEPT ![s] = "create"]
    /\ UNCHANGED <<dirs, suffix, importVars, stored, tempTag, derp, ticket,
                   result, handlers, acceptRes>>

\* std::fs::create_dir_all(&iroh_data_dir)?: succeeds on an existing directory.
CreateDir(s) ==
    /\ alive /\ pc[s] = "create" /\ UNCHANGED pureVars
    /\ \/ /\ dirs' = dirs \cup {suffix[s]}
          /\ pc' = [pc EXCEPT ![s] = "load"]
          /\ UNCHANGED <<result, tempTag, fileTags>>
       \/ /\ ReturnErr(s)
          /\ UNCHANGED dirs
    /\ UNCHANGED <<alive, suffix, inflight, started, results, stored, derp,
                   ticket, handlers, acceptRes>>

\* Variant: provide goes on to the endpoint without calling import.
AfterLoadNoImport == "bind"

\* What provide does with the loaded store: import(path.clone(), db.clone()).
AfterLoad == "import"

\* let db = flat::Store::load(&iroh_data_dir).await?;
LoadStore(s) ==
    /\ alive /\ pc[s] = "load" /\ UNCHANGED pureVars
    /\ \/ /\ pc' = [pc EXCEPT ![s] = AfterLoad]
          /\ UNCHANGED <<result, tempTag, fileTags>>
       \/ ReturnErr(s)
    /\ UNCHANGED <<alive, dirs, suffix, inflight, started, results, stored,
                   derp, ticket, handlers, acceptRes>>

\* ---------------------------------------------------------------- import
\* path.canonicalize()?, the existence check and the WalkDir traversal that
\* builds data_sources; any of them failing fails import and provide.
ImportBegin(s) ==
    /\ alive /\ pc[s] = "import" /\ UNCHANGED pureVars
    /\ \/ /\ pc' = [pc EXCEPT ![s] = "ingest"]
          /\ UNCHANGED <<result, tempTag, fileTags>>
       \/ ReturnErr(s)
    /\ UNCHANGED <<alive, dirs, suffix, inflight, started, results, stored,
                   derp, ticket, handlers, acceptRes>>

\* Variant: the stream is buffered without a limit.
SlotFreeAlways(queue) == TRUE

\* .buffer_unordered(num_cpus::get()): the in-progress queue has room.
SlotFree(queue) == Cardinality(queue) < NumCpus

\* buffer_unordered takes the next future from the stream while fewer than
\* num_cpus are in progress.
StartIngest(s) ==
    /\ alive /\ pc[s] = "ingest" /\ UNCHANGED pureVars
    /\ started[s] < NumFiles
    /\ SlotFree(inflight[s])
    /\ started' = [started EXCEPT ![s] = @ + 1]
    /\ inflight' = [inflight EXCEPT ![s] = @ \cup {data_sources[started[s] + 1]}]
    /\ UNCHANGED <<alive, dirs, pc, suffix, results, fileTags, stored, tempTag,
                   derp, ticket, result, handlers, acceptRes>>

\* One db.import_file(..).await completes, with Ok((temp_tag, file_size)) or
\* with an error; buffer_unordered yields it as soon as it is ready.  The
\* queue is refilled from the stream before the in-progress futures are polled.
FinishIngest(s) ==
    /\ alive /\ pc[s] = "ingest" /\ UNCHANGED pureVars
    /\ started[s] = NumFiles \/ ~SlotFree(inflight[s])
    /\ \E f \in inflight[s], ok \in BOOLEAN :
          /\ inflight' = [inflight EXCEPT ![s] = @ \ {f}]
          /\ results' = [results EXCEPT ![s] =
                Append(@, [file |-> f, ok |-> ok, size |-> FileSize(f)])]
          /\ fileTags' = [fileTags EXCEPT ![s] = IF ok THEN @ \cup {f} ELSE @]
    /\ UNCHANGED <<alive, dirs, pc, suffix, started, stored, tempTag, derp,
                   ticket, result, handlers, acceptRes>>

\* Variant: only the first collected result is inspected.
ImportFailsFirstOnly(res) == Len(res) > 0 /\ ~res[1].ok

\* .into_iter().collect::<anyhow::Result<Vec<_>>>()?: an Err among the
\* collected results.
ImportFails(res) == \E i \in 1..Len(res) : ~res[i].ok

\* The (name, hash) pairs of names_and_tags, in its order.
CollectionOf(res) == [i \in 1..Len(res) |-> <<res[i].file, FileHash(res[i].file)>>]

\* Variant: the tags are dropped as soon as the collection is assembled.
KeptTagsNone(res) == {}

\* The tags unzip keeps in `tags` while the collection is stored.
KeptTags(res) == {res[i].file : i \in 1..Len(res)}

\* let size = ...: the total size import returns for the session.
ImportSize(s) == SumSizes(results[s])

\* All ingestions are done: the results are collected into names_and_tags, or
\* the first Err is returned; then size, collection and tags are computed.
Assemble(s) ==
    /\ alive /\ pc[s] = "ingest" /\ UNCHANGED pureVars
    /\ started[s] = NumFiles /\ inflight[s] = {}
    /\ IF ImportFails(results[s])
       THEN ReturnErr(s)
       ELSE /\ pc' = [pc EXCEPT ![s] = "store"]
            /\ fileTags' = [fileTags EXCEPT ![s] = KeptTags(results[s])]
            /\ UNCHANGED <<result, tempTag>>
    /\ UNCHANGED <<alive, dirs, suffix, inflight, started, results, stored,
                   derp, ticket, handlers, acceptRes>>

\* let temp_tag = collection.clone().store(&db).await?;
StoreCollection(s) ==
    /\ alive /\ pc[s] = "store" /\ UNCHANGED pureVars
    /\ \/ /\ stored' = [stored EXCEPT ![s] = CollectionOf(results[s])]
          /\ tempTag' = [tempTag EXCEPT ![s] =
                [held |-> TRUE, hash |-> CollectionHash(CollectionOf(results[s]))]]
          /\ pc' = [pc EXCEPT ![s] = "stored"]
          /\ UNCHANGED <<result, fileTags>>
       \/ /\ ReturnErr(s)
          /\ UNCHANGED stored
    /\ UNCHANGED <<alive, dirs, suffix, inflight, started, results, derp,
                   ticket, handlers, acceptRes>>

\* drop(tags); Ok((temp_tag, size, collection))
ImportReturn(s) ==
    /\ alive /\ pc[s] = "stored" /\ UNCHANGED pureVars
    /\ fileTags' = [fileTags EXCEPT ![s] = {}]
    /\ pc' = [pc EXCEPT ![s] = "bind"]
    /\ UNCHANGED <<alive, dirs, suffix, inflight, started, results, stored,
                   tempTag, derp, ticket, result, handlers, acceptRes>>

\* ------------------------------------------------- provide, after import
\* let endpoint = endpoint_fut.await?;
EndpointReady(s) ==
    /\ alive /\ pc[s] = "bind" /\ UNCHANGED pureVars
    /\ \/ /\ pc' = [pc EXCEPT ![s] = "poll"]
          /\ UNCHANGED <<result, tempTag, fileTags>>
       \/ ReturnErr(s)
    /\ UNCHANGED <<alive, dirs, suffix, inflight, started, results, stored,
                   derp, ticket, handlers, acceptRes>>

\* The endpoint learns its derp region: my_derp() is Some from now on.
DerpResolve(s) ==
    /\ alive /\ pc[s] \in {"poll", "sleep"} /\ ~derp[s] /\ UNCHANGED pureVars
    /\ derp' = [derp EXCEPT ![s] = TRUE]
    /\ UNCHANGED <<alive, dirs, pc, suffix, importVars, stored, tempTag,
                   ticket, result, handlers, acceptRes>>

\* Variant: the loop gives up waiting after its first look.
PollNextNoWait(resolved) == "addr"

\* while endpoint.my_derp().is_none() { sleep(100ms).await }: where the loop
\* condition sends provide.
PollNext(resolved) == IF resolved THEN "addr" ELSE "sleep"

PollDerp(s) ==
    /\ alive /\ pc[s] = "poll" /\ UNCHANGED pureVars
    /\ pc' = [pc EXCEPT ![s] = PollNext(derp[s])]
    /\ UNCHANGED <<alive, dirs, suffix, importVars, stored, tempTag, derp,
                   ticket, result, handlers, acceptRes>>

\* tokio::time::sleep(Duration::from_millis(100)).await is over.
WakeUp(s) ==
    /\ alive /\ pc[s] = "sleep" /\ UNCHANGED pureVars
    /\ pc' = [pc EXCEPT ![s] = "poll"]
    /\ UNCHANGED <<alive, dirs, suffix, importVars, stored, tempTag, derp,
                   ticket, result, handlers, acceptRes>>

\* Variant: the ticket is marked as a raw blob.
NewTicketRaw(addr, hash) == [addr |-> addr, hash |-> hash, format |-> BlobFormatRaw]

\* BlobTicket::new(addr, hash, BlobFormat::HashSeq)
NewTicket(addr, hash) == [addr |-> addr, hash |-> hash, format |-> BlobFormatHashSeq]

\* let addr = endpoint.my_addr().await?; the ticket; the spawn of the accept
\* task; Ok((ticket, handle)).
MakeTicket(s) ==
    /\ alive /\ pc[s] = "addr" /\ UNCHANGED pureVars
    /\ \/ /\ ticket' = [ticket EXCEPT ![s] = NewTicket(s, tempTag[s].hash)]
          /\ pc' = [pc EXCEPT ![s] = "ready"]
          /\ result' = [result EXCEPT ![s] = "ok"]
          /\ UNCHANGED <<tempTag, fileTags>>
       \/ /\ ReturnErr(s)
          /\ UNCHANGED ticket
    /\ UNCHANGED <<alive, dirs, suffix, inflight, started, results, stored,
                   derp, handlers, acceptRes>>

\* ------------------------------------------------------- accept-loop task
\* Variant: the loop awaits the handler it started before accepting again.
LoopBlockedByRunning(hs) == \E i \in 1..Len(hs) : hs[i] = "running"

\* What the loop waits for besides endpoint.accept(): nothing, the handlers
\* are spawned and never joined.
LoopBlockedBy(hs) == FALSE

\* The spawned task is polled for the first time: LocalPoolHandle::new(1),
\* then the loop awaits endpoint.accept().
TaskStart(s) ==
    /\ alive /\ pc[s] = "ready" /\ UNCHANGED pureVars
    /\ pc' = [pc EXCEPT ![s] = "serving"]
    /\ UNCHANGED <<alive, dirs, suffix, importVars, stored, tempTag, derp,
                   ticket, result, handlers, acceptRes>>

\* endpoint.accept().await yields Some(connecting): the handler is spawned.
AcceptConn(s) ==
    /\ alive /\ pc[s] = "serving" /\ UNCHANGED pureVars
    /\ ~LoopBlockedBy(handlers[s])
    /\ Len(handlers[s]) < MaxConns
    /\ handlers' = [handlers EXCEPT ![s] = Append(@, "running")]
    /\ acceptRes' = [acceptRes EXCEPT ![s] = "some"]
    /\ UNCHANGED <<alive, dirs, pc, suffix, importVars, stored, tempTag, derp,
                   ticket, result>>

\* endpoint.accept().await yields None: break.
AcceptNone(s) ==
    /\ alive /\ pc[s] = "serving" /\ UNCHANGED pureVars
    /\ ~LoopBlockedBy(handlers[s])
    /\ acceptRes' = [acceptRes EXCEPT ![s] = "none"]
    /\ pc' = [pc EXCEPT ![s] = "draining"]
    /\ UNCHANGED <<alive, dirs, suffix, importVars, stored, tempTag, derp,
                   ticket, result, handlers>>

\* drop(temp_tag);
DropTag(s) ==
    /\ alive /\ pc[s] = "draining" /\ UNCHANGED pureVars
    /\ tempTag' = [tempTag EXCEPT ![s] = NoTag]
    /\ pc' = [pc EXCEPT ![s] = "rmdir"]
    /\ UNCHANGED <<alive, dirs, suffix, importVars, stored, derp, ticket,
                   result, handlers, acceptRes>>

\* std::fs::remove_dir_all(iroh_data_dir).ok(); the task ends.
RemoveDir(s) ==
    /\ alive /\ pc[s] = "rmdir" /\ UNCHANGED pureVars
    /\ \/ dirs' = dirs \ {suffix[s]}
       \/ dirs' = dirs
    /\ pc' = [pc EXCEPT ![s] = "closed"]
    /\ UNCHANGED <<alive, suffix, importVars, stored, tempTag, derp, ticket,
                   result, handlers, acceptRes>>

\* The holder of the JoinHandle aborts the task: its future is dropped
\* before its first poll or at the await of accept, with temp_tag, db,
\* endpoint and iroh_data_dir (a PathBuf); the statements after the loop do
\* not run.
Abort(s) ==
    /\ alive /\ pc[s] \in {"ready", "serving"} /\ UNCHANGED pureVars
    /\ pc' = [pc EXCEPT ![s] = "cancelled"]
    /\ tempTag' = [tempTag EXCEPT ![s] = NoTag]
    /\ UNCHANGED <<alive, dirs, suffix, importVars, stored, derp, ticket,
                   result, handlers, acceptRes>>

\* A handle_connection task ends, normally or with an error.
HandlerEnd(s) ==
    /\ alive /\ UNCHANGED pureVars
    /\ \E i \in 1..Len(handlers[s]), how \in {"done", "failed"} :
          /\ handlers[s][i] = "running"
          /\ handlers' = [handlers EXCEPT ![s][i] = how]
    /\ UNCHANGED <<alive, dirs, pc, suffix, importVars, stored, tempTag, derp,
                   ticket, result, acceptRes>>

\* The tray menu's "quit": std::process::exit(0).  The process ends at once,
\* no task runs any further and no destructor runs: working directories stay
\* on disk.
Quit ==
    /\ alive
    /\ alive' = FALSE
    /\ UNCHANGED <<dirs, pc, suffix, importVars, stored, tempTag, derp, ticket,
                   result, handlers, acceptRes, pureVars>>

\* ------------------------------------------------------- functions on paths
\* A string is a sequence of one-character strings; a path is a sequence of
\* components.  The functions below are computed the way upload.rs computes
\* them, as folds over the characters or the components.

Slash == "/"
Backslash == "\\"
Contains(str, ch) == \E i \in 1..Len(str) : str[i] = ch

\* [&str]::join(sep)
RECURSIVE Join(_, _)
Join(parts, sep) ==
    IF parts = <<>> THEN <<>>
    ELSE IF Len(parts) = 1 THEN parts[1]
    ELSE parts[1] \o sep \o Join(Tail(parts), sep)

\* str::split(ch): the pieces between the occurrences of ch, empty pieces
\* included; the empty string splits into one empty piece.
RECURSIVE SplitFrom(_, _, _)
SplitFrom(str, ch, piece) ==
    IF str = <<>> THEN <<piece>>
    ELSE IF Head(str) = ch THEN <<piece>> \o SplitFrom(Tail(str), ch, <<>>)
    ELSE SplitFrom(Tail(str), ch, Append(piece, Head(str)))
Split(str, ch) == SplitFrom(str, ch, <<>>)

\* std::path::Component, as Path::components() yields it on Unix: a Normal
\* component is a file name (never empty, ".", ".." or holding a "/"), which
\* may or may not be valid Unicode (OsStr::to_str).
Normal(str, utf8) == [kind |-> "Normal", str |-> str, utf8 |-> utf8]
RootDir == [kind |-> "RootDir", str |-> <<Slash>>, utf8 |-> TRUE]
CurDir == [kind |-> "CurDir", str |-> <<".">>, utf8 |-> TRUE]
ParentDir == [kind |-> "ParentDir", str |-> <<".", ".">>, utf8 |-> TRUE]

PathErr == [ok |-> FALSE, str |-> <<>>]

\* The test on a Normal component, line 99.
NameHasSlash(str) == Contains(str, Slash)
NameHasSeparator(str) == Contains(str, Slash) \/ Contains(str, Backslash)

\* The filter_map over the components and the collect into a Result: the
\* first component answering Some(Err) ends the call; a RootDir pushes "/"
\* onto path_str and yields no part.
RECURSIVE CanonFold(_, _, _, _)
CanonFold(comps, must_be_relative, path_str, parts) ==
    IF comps = <<>>
    THEN [ok |-> TRUE, str |-> path_str \o Join(parts, <<Slash>>)]
    ELSE LET c == Head(comps) IN
         CASE c.kind = "Normal" ->
                  IF ~c.utf8 THEN PathErr
                  ELSE IF ~NameHasSeparator(c.str)
                       THEN CanonFold(Tail(comps), must_be_relative,
                                      path_str, Append(parts, c.str))
                       ELSE PathErr
           [] c.kind = "RootDir" ->
                  IF must_be_relative THEN PathErr
                  ELSE CanonFold(Tail(comps), must_be_relative,
                                 path_str \o <<Slash>>, parts)
           [] OTHER -> PathErr

canonicalized_path_to_string(path, must_be_relative) ==
    CanonFold(path, must_be_relative, <<>>, <<>>)

validate_path_component(component) == ~Contains(component, Slash)

\* A PathBuf is the sequence of the pieces pushed onto it.
ExportErr == [ok |-> FALSE, path |-> <<>>]
RECURSIVE PushParts(_, _)
PushParts(path, parts) ==
    IF parts = <<>> THEN [ok |-> TRUE, path |-> path]
    ELSE IF ~validate_path_component(Head(parts)) THEN ExportErr
    ELSE PushParts(Append(path, Head(parts)), Tail(parts))

get_export_path(root, name) == PushParts(root, Split(name, Slash))

\* Path::strip_prefix, for a path that has the prefix.
StripPrefixDeeper(path, prefix) == SubSeq(path, Len(prefix) + 2, Len(path))
StripPrefix(path, prefix) == SubSeq(path, Len(prefix) + 1, Len(path))

\* --------------------------------------------------- import and export, pure
\* The directory the imported path lies in, the imported path, and the
\* directory exported into (std::env::current_dir).
ImportParent == << <<"p">> >>
ImportPath == ImportParent \o << <<"d">> >>
ExportRoot == << <<"x">> >>

\* The k-th entry below an imported directory: a, s/b, s/c, then a name
\* holding a backslash, then longer and longer names.
EntryPath(k) ==
    CASE k = 1 -> ImportPath \o << <<"a">> >>
      [] k = 2 -> ImportPath \o << <<"s">>, <<"b">> >>
      [] k = 3 -> ImportPath \o << <<"s">>, <<"c">> >>
      [] k = 4 -> ImportPath \o << <<"e", Backslash>> >>
      [] OTHER -> ImportPath \o << [i \in 1..k |-> "g"] >>

DirEntry(path) == [path |-> path, file_type |-> "dir", content |-> 0]

KidEntry(kids, k) ==
    [path |-> EntryPath(k), file_type |-> kids[k].file_type,
     content |-> kids[k].content]

\* The entries of the imported directory itself (0 is its subdirectory s)
\* and those of s.
TopItems(kids) ==
    {k \in 1..Len(kids) : k \notin {2, 3}} \cup (IF Len(kids) >= 2 THEN {0} ELSE {})
SubItems(kids) == {k \in 1..Len(kids) : k \in {2, 3}}

\* The orders read_dir can list the entries of a directory in: WalkDir is
\* given no sort_by, so the platform chooses.
Orders(S) ==
    {p \in [1..Cardinality(S) -> S] :
        \A i, j \in 1..Cardinality(S) : p[i] = p[j] => i = j}

\* A directory is yielded before its entries, and its entries before the
\* next entry of its parent.
RECURSIVE WalkItems(_, _, _, _)
WalkItems(kids, top, sub, i) ==
    IF i > Len(top) THEN <<>>
    ELSE (IF top[i] = 0
          THEN <<DirEntry(ImportPath \o << <<"s">> >>)>>
               \o [j \in 1..Len(sub) |-> KidEntry(kids, sub[j])]
          ELSE <<KidEntry(kids, top[i])>>)
         \o WalkItems(kids, top, sub, i + 1)

\* WalkDir::new(path).into_iter() without follow_links: the sequences of
\* entries it can yield.  The path itself comes first, then every entry
\* below it; a symbolic link is yielded as such and not descended.
WalkDir(tree) ==
    IF tree.root = "file"
    THEN {<<[path |-> ImportPath, file_type |-> "file", content |-> tree.content]>>}
    ELSE {<<DirEntry(ImportPath)>> \o WalkItems(tree.kids, top, sub, 1) :
             top \in Orders(TopItems(tree.kids)),
             sub \in Orders(SubItems(tree.kids))}

\* entry.file_type().is_file(), line 142.
IsNotDir(entry) == entry.file_type # "dir"
IsFile(entry) == entry.file_type = "file"

AsComponents(relative) == [i \in 1..Len(relative) |-> Normal(relative[i], TRUE)]

\* Lines 139-152: the (name, path) pairs of the walk, or the first error.
RECURSIVE DataSources(_, _)
DataSources(walk, acc) ==
    IF walk = <<>> THEN [ok |-> TRUE, sources |-> acc]
    ELSE LET entry == Head(walk) IN
         IF ~IsFile(entry) THEN DataSources(Tail(walk), acc)
         ELSE LET relative == StripPrefix(entry.path, ImportParent)
                  name == canonicalized_path_to_string(AsComponents(relative), TRUE)
              IN  IF ~name.ok THEN [ok |-> FALSE, sources |-> <<>>]
                  ELSE DataSources(Tail(walk),
                           Append(acc, [name |-> name.str, path |-> entry.path,
                                        content |-> entry.content]))

\* The hash of a blob is a function of its bytes.
HashOfContent(content) == 100 + content

\* The orders in which buffer_unordered(num_cpus) can yield n ingestions: the
\* j-th to finish is one of the first j - 1 + num_cpus started.
CompletionOrders(n) ==
    {p \in [1..n -> 1..n] :
        /\ \A i, j \in 1..n : p[i] = p[j] => i = j
        /\ \A j \in 1..n : p[j] <= j - 1 + NumCpus}

\* Lines 198-206: the files written below root, entry by entry.  The call
\* stops at the first name get_export_path refuses and at the entry whose
\* db.export fails (failAt, 0 for none): nothing is written for that entry
\* nor for the ones after it.
RECURSIVE ExportFold(_, _, _, _, _)
ExportFold(collection, blobs, i, failAt, written) ==
    IF i > Len(collection) THEN [ok |-> TRUE, files |-> written]
    ELSE LET name == collection[i][1]
             hash == collection[i][2]
             target == get_export_path(ExportRoot, name)
         IN  IF ~target.ok \/ i = failAt THEN [ok |-> FALSE, files |-> written]
             ELSE ExportFold(collection, blobs, i + 1, failAt,
                      written \cup {<<target.path, b[2]>> :
                                       b \in {c \in blobs : c[1] = hash}})

\* ------------------------------------------------------ calls of a function
\* The arguments a call is made with.
NormalNames == {<<"a">>, <<"b">>, <<"a", Backslash>>, <<Backslash>>}
LaterComps ==
    {Normal(n, TRUE) : n \in NormalNames} \cup {Normal(<<"a">>, FALSE), ParentDir}
FirstComps == LaterComps \cup {RootDir, CurDir}
Paths ==
    UNION {{p \in [1..n -> FirstComps] : \A i \in 2..n : p[i] \in LaterComps} :
              n \in 0..MaxComps}
PathCalls == [kind : {"path"}, path : Paths, must_be_relative : BOOLEAN]

NameChars == {"a", ".", Slash, Backslash}
Names == UNION {[1..n -> NameChars] : n \in 0..MaxNameLen}
NameCalls == [kind : {"name"}, name : Names]

Contents == {1, 2}
KidChoices ==
    [file_type : {"file"}, content : Contents]
        \cup [file_type : {"symlink", "dir"}, content : {0}]
Trees ==
    [root : {"file"}, content : Contents, kids : {<<>>}]
        \cup [root : {"dir"}, content : {0},
              kids : UNION {[1..n -> KidChoices] : n \in 0..MaxTreeEntries}]
TreeCalls == [kind : {"tree"}, tree : Trees]

PureInit ==
    /\ SessionInit
    /\ pin \in PathCalls \cup NameCalls \cup TreeCalls
    /\ pout = NoCall

CanonicalizeCall ==
    /\ pin.kind = "path" /\ pout.kind = "none"
    /\ LET r == canonicalized_path_to_string(pin.path, pin.must_be_relative)
       IN  pout' = [kind |-> "string", ok |-> r.ok, str |-> r.str]
    /\ UNCHANGED <<pin, sessionVars>>

GetExportPathCall ==
    /\ pin.kind = "name" /\ pout.kind = "none"
    /\ LET r == get_export_path(ExportRoot, pin.name)
       IN  pout' = [kind |-> "path", ok |-> r.ok, path |-> r.path]
    /\ UNCHANGED <<pin, sessionVars>>

\* import(path, db) on a tree: the names come from the walk, in one of the
\* orders the platform lists the directories in, the entries of the
\* collection in the order the ingestions finish; import_file, or storing
\* the collection, may fail.
ImportCall ==
    /\ pin.kind = "tree" /\ pout.kind = "none"
    /\ \E walk \in WalkDir(pin.tree) :
       LET ds == DataSources(walk, <<>>)
           n == Len(ds.sources)
       IN  \E io \in BOOLEAN : \E p \in CompletionOrders(n) :
               pout' = IF ds.ok /\ io
                       THEN [kind |-> "imported", ok |-> TRUE,
                             collection |->
                                 [j \in 1..n |->
                                     <<ds.sources[p[j]].name,
                                       HashOfContent(ds.sources[p[j]].content)>>],
                             blobs |->
                                 {<<HashOfContent(ds.sources[j].content),
                                    ds.sources[j].content>> : j \in 1..n}]
                       ELSE [kind |-> "imported", ok |-> FALSE,
                             collection |-> <<>>, blobs |-> {}]
    /\ UNCHANGED <<pin, sessionVars>>

\* export(db, collection) of what import returned.  std::env::current_dir()?
\* may fail (the current directory is removed or not accessible): export
\* then returns Err before it looks at any entry.  Otherwise the store's
\* export of a blob may fail.
ExportCall ==
    /\ pin.kind = "tree" /\ pout.kind = "imported" /\ pout.ok
    /\ \/ pout' = [kind |-> "exported", ok |-> FALSE, files |-> {}]
       \/ \E failAt \in 0..Len(pout.collection) :
             LET r == ExportFold(pout.collection, pout.blobs, 1, failAt, {})
             IN  pout' = [kind |-> "exported", ok |-> r.ok, files |-> r.files]
    /\ UNCHANGED <<pin, sessionVars>>

\* ----------------------------------------------------------- specification
ProvideStep(s) ==
    \/ Begin(s) \/ CheckExists(s) \/ CreateDir(s) \/ LoadStore(s)
    \/ ImportBegin(s) \/ StartIngest(s) \/ FinishIngest(s) \/ Assemble(s)
    \/ StoreCollection(s) \/ ImportReturn(s) \/ EndpointReady(s)
    \/ PollDerp(s) \/ WakeUp(s) \/ MakeTicket(s)

TaskStep(s) ==
    \/ TaskStart(s) \/ AcceptConn(s) \/ AcceptNone(s) \/ DropTag(s)
    \/ RemoveDir(s)

EnvStep(s) ==
    \/ DerpResolve(s) \/ Abort(s) \/ HandlerEnd(s)

Next ==
    \/ \E s \in Sessions : ProvideStep(s) \/ TaskStep(s) \/ EnvStep(s)
    \/ Quit

Spec == Init /\ [][Next]_vars

\* The executor polls every runnable task: each step of provide that is
\* enabled is eventually taken.
FairSpec == Spec /\ \A s \in Sessions : WF_vars(ProvideStep(s))

\* A process that serves a single upload command: only the first session
\* runs.
SingleNext == ProvideStep(1) \/ TaskStep(1) \/ EnvStep(1) \/ Quit

SingleSpec == Init /\ [][SingleNext]_vars

SingleFairSpec == SingleSpec /\ WF_vars(ProvideStep(1))

\* One call of a function on paths, or an import followed by an export.
PureNext == CanonicalizeCall \/ GetExportPathCall \/ ImportCall \/ ExportCall

PureSpec == PureInit /\ [][PureNext]_vars

\* ------------------------------------------------------------------ claims
Polling(s) == pc[s] \in {"poll", "sleep"}

\* The session's store is loaded in its working directory and the session
\* has neither failed nor finished its teardown.
UsesDir(s) ==
    pc[s] \in {"import", "ingest", "store", "stored", "bind", "poll", "sleep",
               "addr", "ready", "serving", "draining", "rmdir"}

\* C1: a session that finds its working directory already existing gets the
\* collision back as an error of provide and the process keeps running.
C1_CollisionReturnedAsError ==
    \A s \in Sessions :
        pc[s] = "collision" => alive /\ result[s] = "err"

\* C2: two sessions that drew the same directory name never both get past
\* the allocation of the directory: no two sessions use one directory.
C2_NoSharedWorkingDirectory ==
    \A s, t \in Sessions :
        s # t /\ UsesDir(s) /\ UsesDir(t) => suffix[s] # suffix[t]

\* C3: while a session's accept loop runs, its working directory exists and
\* its collection tag is held.
C3_DirAndTagWhileLoopRuns ==
    \A s \in Sessions :
        pc[s] = "serving" => suffix[s] \in dirs /\ tempTag[s].held

\* C4: once the accept loop has exited, by accept yielding None or by the
\* cancellation of the task, the tag is dropped and the directory is gone.
C4_LoopExitRemovesDirectory ==
    \A s \in Sessions :
        pc[s] \in {"closed", "cancelled"} =>
            ~tempTag[s].held /\ suffix[s] \notin dirs

\* C5: while import runs, every ingested file is protected by its own tag
\* or by the tag of the persisted collection: no file tag is released
\* before the collection is stored.
C5_FileTagsHeldUntilPersisted ==
    \A s \in Sessions :
        pc[s] \in {"ingest", "store", "stored"} =>
            \A i \in 1..Len(results[s]) :
                results[s][i].ok =>
                    \/ results[s][i].file \in fileTags[s]
                    \/ stored[s] # NoCollection /\ tempTag[s].held

\* C5 witness: the collection is persisted and every file tag is still held.
C5_Witness ==
    \E s \in Sessions :
        /\ pc[s] = "stored" /\ fileTags[s] = Files
        /\ stored[s] # NoCollection /\ tempTag[s].held

\* C6: a ticket exists only once the endpoint reported a resolved address;
\* its hash is the root identity of the collection this session persisted,
\* its format is HashSeq and never Raw; once made it never changes.
C6_TicketOfPersistedCollection ==
    /\ [](\A s \in Sessions :
            ticket[s] # NoTicket =>
                /\ derp[s]
                /\ stored[s] # NoCollection
                /\ ticket[s].hash = CollectionHash(stored[s])
                /\ ticket[s].format = BlobFormatHashSeq
                /\ ticket[s].format # BlobFormatRaw)
    /\ [][\A s \in Sessions :
            ticket[s] # NoTicket => ticket'[s] = ticket[s]]_vars

\* C6 witness: provide has returned a ticket.
C6_Witness ==
    \E s \in Sessions : ticket[s] # NoTicket /\ result[s] = "ok"

\* C7, as claimed: once the endpoint has reported a resolved address, what
\* provide returns is a ticket.
C7_ResolvedProvideReturnsTicket ==
    \A s \in Sessions :
        derp[s] /\ result[s] # "none" => ticket[s] # NoTicket

\* C7, amended: while the endpoint reports no resolved address provide stays
\* in its polling loop and returns nothing; once the address is resolved a
\* fairly scheduled provide leaves the loop and returns, a ticket or the
\* error of the address lookup, unless the process is terminated meanwhile.
C7_PollsUntilResolved ==
    /\ [][\A s \in Sessions :
            Polling(s) /\ ~derp[s] =>
                /\ pc'[s] \in {"poll", "sleep"}
                /\ result'[s] = "none"
                /\ ticket'[s] = NoTicket]_vars
    /\ \A s \in Sessions :
            (Polling(s) /\ derp[s]) ~> (result[s] \in {"ok", "err"} \/ ~alive)

\* C7 witness: provide sleeps because the address is not resolved yet.
C7_Witness ==
    \E s \in Sessions : pc[s] = "sleep" /\ ~derp[s] /\ result[s] = "none"

\* C8, as claimed: the accept loop stops only when accept yields None.
C8_LoopStopsOnlyOnAcceptNone ==
    [][\A s \in Sessions :
            pc[s] = "serving" /\ pc'[s] # "serving" =>
                acceptRes'[s] = "none"]_vars

\* C8, amended: a handler that ends or fails changes neither the accept loop
\* nor any other handler; whatever the handlers do the loop can accept the
\* next connection; the loop stops only when accept yields None or when the
\* task is cancelled through its JoinHandle.
C8_LoopIndependentOfHandlers ==
    /\ [][\A s \in Sessions, i \in 1..MaxConns :
            (i <= Len(handlers[s]) /\ handlers[s][i] # handlers'[s][i]) =>
                /\ pc' = pc /\ acceptRes' = acceptRes
                /\ \A t \in Sessions : \A j \in 1..Len(handlers[t]) :
                       <<t, j>> # <<s, i>> => handlers'[t][j] = handlers[t][j]]_vars
    /\ [](\A s \in Sessions :
            alive /\ pc[s] = "serving" /\ Len(handlers[s]) < MaxConns =>
                ENABLED AcceptConn(s))
    /\ [][\A s \in Sessions :
            pc[s] = "serving" /\ pc'[s] # "serving" =>
                acceptRes'[s] = "none" \/ pc'[s] = "cancelled"]_vars

\* C8 witness: one handler has failed, another accepted connection is still
\* being handled and the loop is still accepting.
C8_Witness ==
    \E s \in Sessions :
        /\ pc[s] = "serving" /\ Len(handlers[s]) = 2
        /\ handlers[s][1] = "failed" /\ handlers[s][2] = "running"

\* C9: when an ingestion has failed, no collection is stored, no collection
\* tag is held and provide returns nothing but an error.
C9_FailedIngestionNoResult ==
    \A s \in Sessions :
        (\E i \in 1..Len(results[s]) : ~results[s][i].ok) =>
            /\ stored[s] = NoCollection
            /\ ~tempTag[s].held
            /\ ticket[s] = NoTicket
            /\ pc[s] \in {"ingest", "failed"}
            /\ result[s] \in {"none", "err"}

\* C9 witness: import has failed on its last file after another file was
\* ingested.
C9_Witness ==
    \E s \in Sessions :
        /\ pc[s] = "failed" /\ result[s] = "err"
        /\ Len(results[s]) = NumFiles
        /\ \E i, j \in 1..NumFiles :
              /\ results[s][i].ok
              /\ ~results[s][j].ok /\ results[s][j].file = NumFiles

\* C10: the entries of the stored collection are in the order of the
\* traversal.
C10_CollectionInTraversalOrder ==
    \A s \in Sessions :
        stored[s] # NoCollection =>
            \A i \in 1..Len(stored[s]) : stored[s][i][1] = data_sources[i]

\* C11: at most num_cpus ingestions are in flight, and the collection is
\* assembled and stored only when every started ingestion has completed.
C11_IngestionWithinWorkerBound ==
    \A s \in Sessions :
        /\ Cardinality(inflight[s]) <= NumCpus
        /\ pc[s] \in {"store", "stored"} =>
              /\ inflight[s] = {}
              /\ started[s] = NumFiles
              /\ Len(results[s]) = started[s]

\* C11 witness: the in-progress queue is full while a file waits to start.
C11_Witness ==
    \E s \in Sessions :
        /\ pc[s] = "ingest"
        /\ Cardinality(inflight[s]) = NumCpus /\ started[s] < NumFiles

RECURSIVE SizeOfFiles(_)
SizeOfFiles(fs) ==
    IF fs = {} THEN 0
    ELSE LET f == CHOOSE x \in fs : TRUE IN FileSize(f) + SizeOfFiles(fs \ {f})

\* C13: the size of a successful import is the sum of the sizes the store
\* reported, every file counted exactly once.
C13_SizeIsSumOfFileSizes ==
    \A s \in Sessions :
        pc[s] \in {"store", "stored"} =>
            /\ ImportSize(s) = SizeOfFiles(Files)
            /\ Len(results[s]) = NumFiles
            /\ {results[s][i].file : i \in 1..Len(results[s])} = Files

\* C13 witness: the import succeeded with the ingestions completed in
\* another order than the traversal's.
C13_Witness ==
    \E s \in Sessions :
        pc[s] = "stored" /\ results[s][1].file # data_sources[1]

\* The state of the session's state machine at a position of the code; 7 is
\* an end outside the machine (provide failed, the task was cancelled, the
\* process exited).
Stage(p) ==
    CASE p \in {"start", "check", "create"} -> 0
      [] p = "load" -> 1
      [] p \in {"import", "ingest", "store", "stored", "bind", "poll",
                "sleep", "addr"} -> 2
      [] p = "ready" -> 3
      [] p = "serving" -> 4
      [] p \in {"draining", "rmdir"} -> 5
      [] p = "closed" -> 6
      [] OTHER -> 7

\* C17: a session stays in its state or moves to the next one of Created,
\* DirectoryAllocated, Importing, Ready, Serving, Draining, Closed (or ends
\* outside of them, never to come back); the import runs with the directory
\* allocated, a ticket exists only with the collection persisted, and a
\* connection is accepted only with the ticket minted.
C17_StatesInOrder ==
    /\ [][\A s \in Sessions :
            LET a == Stage(pc[s])
                b == Stage(pc'[s])
            IN  /\ a = 7 => b = 7
                /\ b # 7 => b = a \/ b = a + 1]_vars
    /\ [](\A s \in Sessions :
            /\ Stage(pc[s]) \in {1, 2, 3, 4} => suffix[s] \in dirs
            /\ Stage(pc[s]) \in {3, 4, 5, 6} =>
                  ticket[s] # NoTicket /\ stored[s] # NoCollection
            /\ ticket[s] # NoTicket => stored[s] # NoCollection
            /\ handlers[s] # <<>> => ticket[s] # NoTicket)

\* C17 witness: a session is Closed after it served a connection.
C17_Witness ==
    \E s \in Sessions : pc[s] = "closed" /\ handlers[s] # <<>>

\* C18: once an ingestion has failed, import starts no further ingestion.
C18_NoIngestionStartedAfterFailure ==
    [][\A s \in Sessions :
            (\E i \in 1..Len(results[s]) : ~results[s][i].ok) =>
                started'[s] = started[s]]_vars

\* C19: when provide has returned an error, the session's working directory
\* does not exist.
C19_DirectoryRemovedOnError ==
    \A s \in Sessions :
        pc[s] = "failed" => suffix[s] \notin dirs

\* C20: while a connection handler of the session runs, the session's
\* working directory exists and its collection tag is held.
C20_TeardownWaitsForHandlers ==
    \A s \in Sessions :
        /\ pc[s] \in {"serving", "draining", "rmdir", "closed"}
        /\ \E i \in 1..Len(handlers[s]) : handlers[s][i] = "running"
        => suffix[s] \in dirs /\ tempTag[s].held

\* The regular files of a source tree, as (path, content) pairs.
SourceFiles(tree) ==
    IF tree.root = "file" THEN {<<ImportPath, tree.content>>}
    ELSE {<<EntryPath(k), tree.kids[k].content>> :
             k \in {i \in DOMAIN tree.kids : tree.kids[i].file_type = "file"}}

\* C12: a successful import of a tree with N regular files, any symbolic
\* links and any directories yields a collection of exactly N entries, one
\* per regular file, named by the file's path below the parent of the
\* imported path; links and directories contribute no entry.
C12_OneEntryPerRegularFile ==
    (pin.kind = "tree" /\ pout.kind = "imported" /\ pout.ok) =>
        LET files == SourceFiles(pin.tree)
            names == {pout.collection[j][1] : j \in 1..Len(pout.collection)}
        IN  /\ Len(pout.collection) = Cardinality(files)
            /\ Cardinality(names) = Cardinality(files)
            /\ {Split(n, Slash) : n \in names}
                   = {SubSeq(f[1], Len(ImportParent) + 1, Len(f[1])) : f \in files}

C12_Witness ==
    /\ pin.kind = "tree" /\ pout.kind = "imported" /\ pout.ok
    /\ Len(pout.collection) = 2
    /\ \E i, j \in DOMAIN pin.tree.kids :
           pin.tree.kids[i].file_type = "symlink" /\ pin.tree.kids[j].file_type = "dir"

\* C14: get_export_path fails for every name that has a component "..", ".",
\* empty or holding a backslash, and every path it returns lies below the
\* export root.
C14_ExportNamesValidated ==
    (pin.kind = "name" /\ pout.kind = "path") =>
        LET parts == Split(pin.name, Slash)
            refused(part) == \/ part \in {<<>>, <<".">>, <<".", ".">>}
                             \/ Contains(part, Backslash)
        IN  /\ (\E i \in 1..Len(parts) : refused(parts[i])) => ~pout.ok
            /\ pout.ok =>
                  /\ SubSeq(pout.path, 1, Len(ExportRoot)) = ExportRoot
                  /\ Len(pout.path) > Len(ExportRoot)
                  /\ \A i \in Len(ExportRoot) + 1..Len(pout.path) :
                         pout.path[i] \notin {<<>>, <<".">>, <<".", ".">>}

\* C15 as stated: the call succeeds exactly when every component is a Normal
\* one holding neither "/" nor a backslash, or a RootDir while
\* must_be_relative is false; the result is then the components joined by
\* "/", after one "/" for a RootDir.
C15_SucceedsIffPlainSegments ==
    (pin.kind = "path" /\ pout.kind = "string") =>
        pout.ok <=>
            \A i \in 1..Len(pin.path) :
                \/ /\ pin.path[i].kind = "Normal"
                   /\ ~Contains(pin.path[i].str, Slash)
                   /\ ~Contains(pin.path[i].str, Backslash)
                \/ pin.path[i].kind = "RootDir" /\ ~pin.must_be_relative

\* C15, amended: the call succeeds exactly when every component is a Normal
\* one that is valid Unicode and holds neither "/" nor a backslash, or a
\* RootDir while must_be_relative is false; it fails for "..", ".", a
\* separator in a component and a RootDir when must_be_relative; on success
\* the result is the Normal components joined by "/", after one "/" for a
\* RootDir.
C15_SucceedsIffPlainUnicodeSegments ==
    (pin.kind = "path" /\ pout.kind = "string") =>
        LET normals == SelectSeq(pin.path, LAMBDA c : c.kind = "Normal")
            joined == Join([i \in 1..Len(normals) |-> normals[i].str], <<Slash>>)
            rooted == \E i \in 1..Len(pin.path) : pin.path[i].kind = "RootDir"
        IN  /\ pout.ok <=>
                \A i \in 1..Len(pin.path) :
                    \/ /\ pin.path[i].kind = "Normal"
                       /\ pin.path[i].utf8
                       /\ ~Contains(pin.path[i].str, Slash)
                       /\ ~Contains(pin.path[i].str, Backslash)
                    \/ pin.path[i].kind = "RootDir" /\ ~pin.must_be_relative
            /\ (\E i \in 1..Len(pin.path) :
                    pin.path[i].kind \in {"CurDir", "ParentDir"}) => ~pout.ok
            /\ pout.ok =>
                  pout.str = IF rooted THEN <<Slash>> \o joined ELSE joined

C15_Witness ==
    /\ pin.kind = "path" /\ pout.kind = "string" /\ pout.ok
    /\ pout.str = <<Slash, "a", Slash, "b">>

\* C16: an import of a tree followed by an export of the collection into an
\* empty root writes exactly the (name, content) pairs of the tree's regular
\* files, the names taken relative to the parent of the imported path.
C16_ImportExportRoundTrip ==
    (pin.kind = "tree" /\ pout.kind = "exported" /\ pout.ok) =>
        pout.files =
            {<<ExportRoot \o SubSeq(f[1], Len(ImportParent) + 1, Len(f[1])), f[2]>> :
                f \in SourceFiles(pin.tree)}

C16_Witness ==
    /\ pin.kind = "tree" /\ pout.kind = "exported" /\ pout.ok
    /\ <<ExportRoot \o << <<"d">>, <<"s">>, <<"b">> >>, 2>> \in pout.files
    /\ <<ExportRoot \o << <<"d">>, <<"a">> >>, 1>> \in pout.files
    /\ \E i \in DOMAIN pin.tree.kids : pin.tree.kids[i].file_type = "symlink"

====
